---- MODULE Spec2Model ----
(***************************************************************************)
(* Model of the task-management service: AuthService (register,            *)
(* validateUser, login, refreshToken) and TasksService (create, findAll,   *)
(* findOne, update, remove) over a user store and a task store.            *)
(*                                                                         *)
(* Strings that the code inspects character by character (emails,          *)
(* passwords) are sequences of one-character strings.  Optional fields of  *)
(* a JavaScript object are fields that a record may lack (DOMAIN).         *)
(***************************************************************************)
EXTENDS Integers, Sequences, FiniteSets, TLC

VARIABLES users, tasks, nextTaskId, now, last,
          inflight,   \* the calls that have read the store and not yet written
          redeemed    \* history: the refresh tokens refreshToken has accepted

vars == <<users, tasks, nextTaskId, now, last, inflight, redeemed>>

(* ------------------------------ bounds --------------------------------- *)

MaxUsers == 3
MaxTaskId == 2
MaxNow == 252
TickStep == 84

\* the tasks created before the store is listed
MaxListTasks == 3

(* --------------------------- configuration ----------------------------- *)

\* JWT_SECRET / REFRESH_TOKEN_SECRET of the deployment
JwtSecret == "your-secret-key"
RefreshTokenSecret == "your-refresh-secret-key"
\* JWT_EXPIRATION = 1h, REFRESH_TOKEN_EXPIRATION = 7d, in hours
JwtExpiration == 1
RefreshTokenExpiration == 168
\* bcrypt.hash(password, 10)
SaltRounds == 10
\* password.length < 6
MinPasswordLength == 6

(* ------------------------------ inputs --------------------------------- *)

AdminEmail == <<"a","d","m","i","n","@","e","x","a","m","p","l","e",".","c","o","m">>
UpperAdminEmail == <<"A","d","m","i","n","@","e","x","a","m","p","l","e",".","c","o","m">>
UserEmailA == <<"a","@","b",".","c">>

\* emails handed to register and validateUser: three of the local@domain.tld
\* shape and five that are not
EmailInputs ==
  { AdminEmail, UpperAdminEmail, UserEmailA,
    <<"b","a","d","-","e","m","a","i","l">>,
    <<"a","@","b">>,
    <<"a"," ","@","b",".","c">>,
    <<"a","@","@","b",".","c">>,
    <<"@","b",".","c">> }

GoodPassword == <<"1","2","3","4","5","6">>
OtherPassword == <<"a","b","c","d","e","f">>

\* passwords handed to register: one long enough, two too short
RegisterPasswords == { GoodPassword, <<"1","2","3">>, <<"1","2","3","4","5">> }

\* passwords handed to validateUser: the registered one and another one
ValidatePasswords == { GoodPassword, OtherPassword }

(* --------------------------- AuthService ------------------------------- *)

\* the characters \s matches, among those of the inputs
Whitespace == {" "}

\* [^\s@]+ over s[from..to]
NoSpaceNoAt(s, from, to) ==
  /\ from <= to
  /\ \A k \in from..to : s[k] \notin Whitespace /\ s[k] # "@"

\* a test that only looks for an "@" with something on both sides
isValidEmail_AtOnly(email) ==
  \E i \in 2..(Len(email) - 1) : email[i] = "@"

\* /^[^\s@]+@[^\s@]+\.[^\s@]+$/.test(email)
isValidEmail(email) ==
  \E i \in 1..Len(email), j \in 1..Len(email) :
    /\ i < j
    /\ email[i] = "@"
    /\ email[j] = "."
    /\ NoSpaceNoAt(email, 1, i - 1)
    /\ NoSpaceNoAt(email, i + 1, j - 1)
    /\ NoSpaceNoAt(email, j + 1, Len(email))

\* bcrypt.hash(password, rounds): an opaque value that only compare can
\* relate to a password; the random salt is left out, since compare's answer
\* depends on the hashed password alone
bcryptHash(password, rounds) == [alg |-> "bcrypt", rounds |-> rounds, of |-> password]

\* bcrypt.compare(password, hash)
bcryptCompare(password, hash) == hash.of = password

\* the comparison made on the lower-cased email
RoleFor_IgnoreCase(email) ==
  IF [i \in DOMAIN email |-> IF email[i] = "A" THEN "a" ELSE email[i]] = AdminEmail
  THEN "ADMIN" ELSE "USER"

\* email === 'admin@example.com' ? UserRole.ADMIN : UserRole.USER
RoleFor(email) == IF email = AdminEmail THEN "ADMIN" ELSE "USER"

\* a lookup whose where clause names the wrong column
FindUserByEmail_WrongColumn(email) == { u \in users : u.password.of = email }

\* userRepository.findOne({ where: { email } }): the set of matches (empty: null)
FindUserByEmail(email) == { u \in users : u.email = email }

\* userRepository.findOne({ where: { id } })
FindUserById(id) == { u \in users : u.id = id }

\* the primary key the store generates on save
NewUserId == Cardinality(users) + 1

Result(op, arg, err, msg, ret) ==
  [op |-> op, arg |-> arg, err |-> err, msg |-> msg, ret |-> ret]

\* a registration that replaces the account already stored under the email
Register_Replace(email, password) ==
  LET arg == [email |-> email, password |-> password] IN
  IF ~isValidEmail(email) THEN
    /\ last' = Result("register", arg, "BadRequestException", "Invalid email format", {})
    /\ UNCHANGED users
  ELSE IF Len(password) < MinPasswordLength THEN
    /\ last' = Result("register", arg, "BadRequestException",
                      "Password must be at least 6 characters long", {})
    /\ UNCHANGED users
  ELSE
    LET user == [id |-> IF FindUserByEmail(email) = {} THEN NewUserId ELSE MaxUsers + 1,
                 email |-> email,
                 password |-> bcryptHash(password, SaltRounds),
                 role |-> RoleFor(email)] IN
    /\ users' = (users \ FindUserByEmail(email)) \cup {user}
    /\ last' = Result("register", arg, "none", "", {user})

Register(email, password) ==
  LET arg == [email |-> email, password |-> password] IN
  IF ~isValidEmail(email) THEN
    /\ last' = Result("register", arg, "BadRequestException", "Invalid email format", {})
    /\ UNCHANGED users
  ELSE IF Len(password) < MinPasswordLength THEN
    /\ last' = Result("register", arg, "BadRequestException",
                      "Password must be at least 6 characters long", {})
    /\ UNCHANGED users
  ELSE IF FindUserByEmail(email) # {} THEN
    /\ last' = Result("register", arg, "BadRequestException", "Email already exists", {})
    /\ UNCHANGED users
  ELSE
    LET user == [id |-> NewUserId,
                 email |-> email,
                 password |-> bcryptHash(password, SaltRounds),
                 role |-> RoleFor(email)] IN
    /\ users' = users \cup {user}
    /\ last' = Result("register", arg, "none", "", {user})

DoRegister ==
  /\ \E email \in EmailInputs, password \in RegisterPasswords :
       /\ (isValidEmail(email) /\ Len(password) >= MinPasswordLength
             /\ FindUserByEmail(email) = {}) => Cardinality(users) < MaxUsers
       /\ Register(email, password)
  /\ UNCHANGED <<tasks, nextTaskId, now, inflight, redeemed>>

\* the calls that may be between their first await and their save
MaxInflight == 2

\* register up to and including `await userRepository.findOne`: a call whose
\* checks pass is suspended with its arguments, the others throw
RegisterLookup(call, email, password) ==
  LET arg == [email |-> email, password |-> password] IN
  IF ~isValidEmail(email) THEN
    /\ last' = Result("register", arg, "BadRequestException", "Invalid email format", {})
    /\ UNCHANGED inflight
  ELSE IF Len(password) < MinPasswordLength THEN
    /\ last' = Result("register", arg, "BadRequestException",
                      "Password must be at least 6 characters long", {})
    /\ UNCHANGED inflight
  ELSE IF FindUserByEmail(email) # {} THEN
    /\ last' = Result("register", arg, "BadRequestException", "Email already exists", {})
    /\ UNCHANGED inflight
  ELSE
    /\ inflight' = inflight \cup {[call |-> call, email |-> email, password |-> password]}
    /\ last' = Result("register", arg, "pending", "", {})

\* a second part that looks the email up again before saving
RegisterSave_Recheck(c, unique) ==
  LET arg == [email |-> c.email, password |-> c.password]
      user == [id |-> NewUserId,
               email |-> c.email,
               password |-> bcryptHash(c.password, SaltRounds),
               role |-> RoleFor(c.email)] IN
  /\ inflight' = inflight \ {c}
  /\ IF FindUserByEmail(c.email) # {} THEN
       /\ last' = Result("register", arg, "BadRequestException", "Email already exists", {})
       /\ UNCHANGED users
     ELSE
       /\ users' = users \cup {user}
       /\ last' = Result("register", arg, "none", "", {user})

\* register after the lookup: hash, role, create and save. The insert is the
\* store's business: a user table with a unique email column refuses a second
\* row for the email (QueryFailedError), one without takes it
RegisterSave(c, unique) ==
  LET arg == [email |-> c.email, password |-> c.password]
      user == [id |-> NewUserId,
               email |-> c.email,
               password |-> bcryptHash(c.password, SaltRounds),
               role |-> RoleFor(c.email)] IN
  /\ inflight' = inflight \ {c}
  /\ IF unique /\ FindUserByEmail(c.email) # {} THEN
       /\ last' = Result("register", arg, "QueryFailedError",
                         "duplicate key value violates unique constraint", {})
       /\ UNCHANGED users
     ELSE
       /\ users' = users \cup {user}
       /\ last' = Result("register", arg, "none", "", {user})

DoRegisterLookup ==
  /\ Cardinality(inflight) < MaxInflight
  /\ Cardinality(users) + Cardinality(inflight) < MaxUsers
  /\ \E email \in EmailInputs, password \in RegisterPasswords :
       RegisterLookup(CHOOSE n \in 1..MaxInflight : \A c \in inflight : c.call # n,
                      email, password)
  /\ UNCHANGED <<users, tasks, nextTaskId, now, redeemed>>

DoRegisterSave ==
  /\ \E c \in inflight, unique \in BOOLEAN : RegisterSave(c, unique)
  /\ UNCHANGED <<tasks, nextTaskId, now, redeemed>>

\* the record returned as it is stored
WithoutPassword_Kept(user) == user

\* const { password: _, ...result } = user
WithoutPassword(user) == [f \in DOMAIN user \ {"password"} |-> user[f]]

ValidateUser(email, password) ==
  LET arg == [email |-> email, password |-> password]
      found == FindUserByEmail(email) IN
  IF found = {} THEN
    last' = Result("validateUser", arg, "none", "", {})
  ELSE
    LET user == CHOOSE u \in found : TRUE IN
    IF ~bcryptCompare(password, user.password) THEN
      last' = Result("validateUser", arg, "none", "", {})
    ELSE
      last' = Result("validateUser", arg, "none", "", {WithoutPassword(user)})

DoValidateUser ==
  /\ \E email \in EmailInputs, password \in ValidatePasswords :
       ValidateUser(email, password)
  /\ UNCHANGED <<users, tasks, nextTaskId, now, inflight, redeemed>>

(* ----------------------- Token Issuer/Verifier ------------------------- *)

\* the instants the clock can show
Times == { t \in 0..MaxNow : t % TickStep = 0 }

\* a string that is not a JSON web token
Malformed == [malformed |-> "invalid-token"]

\* JwtService.sign(payload) of a service configured with (secret, expiresIn),
\* at instant t: the signed token carries the payload, iat and exp
Sign(secret, expiresIn, payload, t) ==
  [secret |-> secret, payload |-> payload, iat |-> t, exp |-> t + expiresIn]

\* a verification that decodes the token without checking its signature
Verify_NoSignature(secret, token, t) ==
  IF "malformed" \in DOMAIN token THEN
    [ok |-> FALSE, error |-> "JsonWebTokenError: jwt malformed"]
  ELSE IF t >= token.exp THEN
    [ok |-> FALSE, error |-> "TokenExpiredError: jwt expired"]
  ELSE
    [ok |-> TRUE, payload |-> token.payload]

\* JwtService.verify(token) of a service configured with secret, at instant t:
\* the decoded payload, or the error thrown
Verify(secret, token, t) ==
  IF "malformed" \in DOMAIN token THEN
    [ok |-> FALSE, error |-> "JsonWebTokenError: jwt malformed"]
  ELSE IF token.secret # secret THEN
    [ok |-> FALSE, error |-> "JsonWebTokenError: invalid signature"]
  ELSE IF t >= token.exp THEN
    [ok |-> FALSE, error |-> "TokenExpiredError: jwt expired"]
  ELSE
    [ok |-> TRUE, payload |-> token.payload]

\* const payload = { sub: user.id, email: user.email, role: user.role }
PayloadOf(user) == [sub |-> user.id, email |-> user.email, role |-> user.role]

\* both tokens signed by the access-token service
login_OneService(user, t) ==
  [access_token |-> Sign(JwtSecret, JwtExpiration, PayloadOf(user), t),
   refresh_token |-> Sign(JwtSecret, JwtExpiration, PayloadOf(user), t)]

\* AuthService.login: the pair signed at instant t
login(user, t) ==
  [access_token |-> Sign(JwtSecret, JwtExpiration, PayloadOf(user), t),
   refresh_token |-> Sign(RefreshTokenSecret, RefreshTokenExpiration, PayloadOf(user), t)]

DoLogin ==
  /\ \E u \in users :
       last' = Result("login", [user |-> WithoutPassword(u), at |-> now],
                      "none", "", {login(WithoutPassword(u), now)})
  /\ UNCHANGED <<users, tasks, nextTaskId, now, inflight, redeemed>>

\* a completeness test that forgets the role
PayloadIncomplete_NoRole(payload) ==
  \/ ~("sub" \in DOMAIN payload /\ payload.sub # 0)
  \/ ~("email" \in DOMAIN payload /\ payload.email # <<>>)

\* !payload.sub || !payload.email || !payload.role
PayloadIncomplete(payload) ==
  \/ ~("sub" \in DOMAIN payload /\ payload.sub # 0)
  \/ ~("email" \in DOMAIN payload /\ payload.email # <<>>)
  \/ ~("role" \in DOMAIN payload /\ payload.role # "")

\* a try block that refuses a token it has accepted before
RefreshTry_OneUse(token, t) ==
  LET v == Verify(RefreshTokenSecret, token, t) IN
  IF ~v.ok THEN
    [thrown |-> v.error, ret |-> {}]
  ELSE IF \E i \in DOMAIN redeemed : redeemed[i] = token THEN
    [thrown |-> "UnauthorizedException: Token already used", ret |-> {}]
  ELSE IF PayloadIncomplete(v.payload) THEN
    [thrown |-> "UnauthorizedException: Invalid token payload", ret |-> {}]
  ELSE IF FindUserById(v.payload.sub) = {} THEN
    [thrown |-> "UnauthorizedException: User not found", ret |-> {}]
  ELSE
    [thrown |-> "none", ret |-> {login(CHOOSE u \in FindUserById(v.payload.sub) : TRUE, t)}]

\* a try block that issues the new pair from the payload it was handed
RefreshTry_FromPayload(token, t) ==
  LET v == Verify(RefreshTokenSecret, token, t) IN
  IF ~v.ok THEN
    [thrown |-> v.error, ret |-> {}]
  ELSE IF PayloadIncomplete(v.payload) THEN
    [thrown |-> "UnauthorizedException: Invalid token payload", ret |-> {}]
  ELSE IF FindUserById(v.payload.sub) = {} THEN
    [thrown |-> "UnauthorizedException: User not found", ret |-> {}]
  ELSE
    [thrown |-> "none",
     ret |-> {login([id |-> v.payload.sub, email |-> v.payload.email,
                     role |-> v.payload.role], t)}]

\* the body of refreshToken's try block: what it returns or throws
RefreshTry(token, t) ==
  LET v == Verify(RefreshTokenSecret, token, t) IN
  IF ~v.ok THEN
    [thrown |-> v.error, ret |-> {}]
  ELSE IF PayloadIncomplete(v.payload) THEN
    [thrown |-> "UnauthorizedException: Invalid token payload", ret |-> {}]
  ELSE IF FindUserById(v.payload.sub) = {} THEN
    [thrown |-> "UnauthorizedException: User not found", ret |-> {}]
  ELSE
    [thrown |-> "none", ret |-> {login(CHOOSE u \in FindUserById(v.payload.sub) : TRUE, t)}]

\* a catch block that rethrows what it caught
RefreshCatch_Rethrow(thrown) ==
  IF thrown = "none" THEN [err |-> "none", msg |-> ""]
  ELSE IF thrown \in {"UnauthorizedException: Invalid token payload",
                      "UnauthorizedException: User not found"}
       THEN [err |-> "UnauthorizedException", msg |-> thrown]
       ELSE [err |-> "Error", msg |-> thrown]

\* catch (error) { throw new UnauthorizedException('Invalid refresh token') }
RefreshCatch(thrown) ==
  IF thrown = "none" THEN [err |-> "none", msg |-> ""]
  ELSE [err |-> "UnauthorizedException", msg |-> "Invalid refresh token"]

RefreshToken(token) ==
  LET r == RefreshTry(token, now)
      c == RefreshCatch(r.thrown) IN
  last' = Result("refreshToken", [token |-> token, at |-> now], c.err, c.msg, r.ret)

\* the users a presented token may name: the stored ones and one that is
\* not stored
ClaimedUsers ==
  { WithoutPassword(u) : u \in users }
    \cup { [id |-> NewUserId, email |-> UserEmailA, role |-> "USER"] }

OtherRole(role) == IF role = "ADMIN" THEN "USER" ELSE "ADMIN"

\* payloads of the tokens presented to refreshToken: complete ones, ones
\* lacking a field, ones with an empty field, ones with another role
PayloadInputs ==
  LET Full == { PayloadOf(u) : u \in ClaimedUsers } IN
  Full
    \cup { [f \in DOMAIN p \ {g} |-> p[f]] : p \in Full, g \in {"sub", "email", "role"} }
    \cup { [p EXCEPT !.sub = 0] : p \in Full }
    \cup { [p EXCEPT !.email = <<>>] : p \in Full }
    \cup { [p EXCEPT !.role = ""] : p \in Full }
    \cup { [p EXCEPT !.role = OtherRole(p.role)] : p \in Full }
    \cup { [invalid |-> "payload"] }

\* tokens presented to refreshToken at instant t: anything either service
\* could have signed up to t, and a string that is no token
TokenInputs(t) ==
  {Malformed}
    \cup { Sign(RefreshTokenSecret, RefreshTokenExpiration, p, iat) :
             p \in PayloadInputs, iat \in { i \in Times : i <= t } }
    \cup { Sign(JwtSecret, JwtExpiration, PayloadOf(u), iat) :
             u \in ClaimedUsers, iat \in { i \in Times : i <= t } }

DoRefreshToken ==
  /\ \E token \in TokenInputs(now) : RefreshToken(token)
  /\ UNCHANGED <<users, tasks, nextTaskId, now, inflight, redeemed>>

\* passage of time
Tick ==
  /\ now + TickStep <= MaxNow
  /\ now' = now + TickStep
  /\ UNCHANGED <<users, tasks, nextTaskId, last, inflight, redeemed>>

(* --------------------------- TasksService ------------------------------ *)

\* Object.values(TaskStatus)
TaskStatus == {"TODO", "IN_PROGRESS", "DONE"}

\* the status column's default
DefaultStatus == "TODO"

\* new Date(s).getTime(): days since the epoch, or NaN
ParseDate(s) ==
  CASE s = "2025-01-01" -> [nan |-> FALSE, time |-> 20089]
    [] s = "2025-01-01T00:00:00.000Z" -> [nan |-> FALSE, time |-> 20089]
    [] s = "2025-06-30" -> [nan |-> FALSE, time |-> 20269]
    [] OTHER -> [nan |-> TRUE]

\* the JavaScript value null in a field that otherwise holds a string
Null == "<null>"

\* a field of a JavaScript object that is present and truthy (a string field)
Truthy(obj, f) == f \in DOMAIN obj /\ obj[f] \notin {"", Null}

\* the column values of a DTO whose absent status is filled in with the
\* default, as a DTO class with an initialised field would
Columns_WithDefault(dto) ==
  [f \in DOMAIN dto \cup {"status"} |->
     IF f \notin DOMAIN dto THEN DefaultStatus
     ELSE IF f = "dueDate" THEN ParseDate(dto[f]).time ELSE dto[f]]

\* the column values of the fields a DTO carries
Columns(dto) ==
  [f \in DOMAIN dto |-> IF f = "dueDate" THEN ParseDate(dto[f]).time ELSE dto[f]]

\* a task table whose status column takes any value
StoreRejects_DatesOnly(dto) ==
  "dueDate" \in DOMAIN dto /\ ParseDate(dto.dueDate).nan

\* the values the task table refuses to store: a status outside the enum of
\* the column (null included: the column is not nullable), a due date that is
\* no date
StoreRejects(dto) ==
  \/ "status" \in DOMAIN dto /\ dto.status \notin TaskStatus
  \/ "dueDate" \in DOMAIN dto /\ ParseDate(dto.dueDate).nan

\* Object.assign(target, source)
Assign(target, source) ==
  [f \in DOMAIN target \cup DOMAIN source |->
     IF f \in DOMAIN source THEN source[f] ELSE target[f]]

\* taskRepository.findOne({ where: { id }, relations: ['user'] })
FindTaskById(id) == { t \in tasks : t.id = id }

\* task.user, the relation loaded with the task
TaskUser(task) == CHOOSE u \in users : u.id = task.userId

\* the users on whose behalf requests are made: req.user
ActingUsers == { WithoutPassword(u) : u \in users }

\* the entity read from a row, with the relations asked for
Loaded(row, relations) ==
  IF "user" \in relations THEN [f \in DOMAIN row \cup {"user"} |->
                                 IF f = "user" THEN TaskUser(row) ELSE row[f]]
  ELSE row

\* taskRepository.save(entity): the row written; the owner column is taken
\* from the user relation when the entity carries one
SavedRow(entity) ==
  [f \in (DOMAIN entity \ {"user"}) \cup {"userId"} |->
     IF f # "userId" THEN entity[f]
     ELSE IF "user" \in DOMAIN entity THEN entity.user.id ELSE entity.userId]

\* taskRepository.create({ ...createTaskDto, user }) with the spread after
\* the user, so that a user named by the DTO wins
Entity_DtoLast(dto, user) ==
  [f \in DOMAIN dto \cup {"user"} |-> IF f \in DOMAIN dto THEN Columns(dto)[f] ELSE user]

\* taskRepository.create({ ...createTaskDto, user })
Entity(dto, user) ==
  [f \in DOMAIN dto \cup {"user"} |-> IF f = "user" THEN user ELSE Columns(dto)[f]]

\* ids asked for: those the store has handed out or may hand out
TaskIds == 1..(MaxTaskId + 1)

Create(dto, user) ==
  LET arg == [dto |-> dto, user |-> user] IN
  IF ~Truthy(dto, "title") THEN
    /\ last' = Result("create", arg, "BadRequestException", "Title is required", {})
    /\ UNCHANGED <<tasks, nextTaskId>>
  ELSE IF Truthy(dto, "status") /\ dto.status \notin TaskStatus THEN
    /\ last' = Result("create", arg, "BadRequestException", "Invalid task status", {})
    /\ UNCHANGED <<tasks, nextTaskId>>
  ELSE IF Truthy(dto, "dueDate") /\ ParseDate(dto.dueDate).nan THEN
    /\ last' = Result("create", arg, "BadRequestException", "Invalid due date format", {})
    /\ UNCHANGED <<tasks, nextTaskId>>
  ELSE IF StoreRejects(dto) THEN
    /\ last' = Result("create", arg, "QueryFailedError", "invalid input value", {})
    /\ UNCHANGED <<tasks, nextTaskId>>
  ELSE
    LET entity == Assign([status |-> DefaultStatus],
                         Assign(Entity(dto, user), [id |-> nextTaskId])) IN
    /\ tasks' = tasks \cup {SavedRow(entity)}
    /\ nextTaskId' = nextTaskId + 1
    /\ last' = Result("create", arg, "none", "", {Assign(entity, SavedRow(entity))})

\* findOne with the ownership test applied to administrators too
FindOne_NoAdmin(id, user) ==
  LET found == FindTaskById(id) IN
  IF found = {} THEN
    [err |-> "NotFoundException", msg |-> "Task with ID not found", ret |-> {}]
  ELSE
    LET task == CHOOSE t \in found : TRUE IN
    IF TaskUser(task).id # user.id THEN
      [err |-> "ForbiddenException",
       msg |-> "You do not have permission to access this task", ret |-> {}]
    ELSE
      [err |-> "none", msg |-> "", ret |-> {Loaded(task, {"user"})}]

\* findOne with the permission decided before the task is looked for: a
\* non-admin is refused whatever is not a task of its own
FindOne_PermissionFirst(id, user) ==
  LET found == FindTaskById(id) IN
  IF user.role # "ADMIN" /\ ~\E t \in found : TaskUser(t).id = user.id THEN
    [err |-> "ForbiddenException",
     msg |-> "You do not have permission to access this task", ret |-> {}]
  ELSE IF found = {} THEN
    [err |-> "NotFoundException", msg |-> "Task with ID not found", ret |-> {}]
  ELSE
    [err |-> "none", msg |-> "", ret |-> { Loaded(t, {"user"}) : t \in found }]

\* TasksService.findOne: the task, or the exception thrown
FindOne(id, user) ==
  LET found == FindTaskById(id) IN
  IF found = {} THEN
    [err |-> "NotFoundException", msg |-> "Task with ID not found", ret |-> {}]
  ELSE
    LET task == CHOOSE t \in found : TRUE IN
    IF user.role # "ADMIN" /\ TaskUser(task).id # user.id THEN
      [err |-> "ForbiddenException",
       msg |-> "You do not have permission to access this task", ret |-> {}]
    ELSE
      [err |-> "none", msg |-> "", ret |-> {Loaded(task, {"user"})}]

Update(id, dto, user) ==
  LET arg == [id |-> id, dto |-> dto, user |-> user]
      r == FindOne(id, user) IN
  IF r.err # "none" THEN
    /\ last' = Result("update", arg, r.err, r.msg, {})
    /\ UNCHANGED tasks
  ELSE IF Truthy(dto, "status") /\ dto.status \notin TaskStatus THEN
    /\ last' = Result("update", arg, "BadRequestException", "Invalid task status", {})
    /\ UNCHANGED tasks
  ELSE IF Truthy(dto, "dueDate") /\ ParseDate(dto.dueDate).nan THEN
    /\ last' = Result("update", arg, "BadRequestException", "Invalid due date format", {})
    /\ UNCHANGED tasks
  ELSE IF StoreRejects(dto) THEN
    /\ last' = Result("update", arg, "QueryFailedError", "invalid input value", {})
    /\ UNCHANGED tasks
  ELSE
    LET task == CHOOSE t \in r.ret : TRUE
        saved == Assign(task, Columns(dto)) IN
    /\ tasks' = (tasks \ FindTaskById(task.id)) \cup {SavedRow(saved)}
    /\ last' = Result("update", arg, "none", "", {Assign(saved, SavedRow(saved))})

\* update up to and including `await this.findOne(id, user)`: a call that
\* finds the task is suspended holding the loaded entity, the others throw
UpdateLoad(call, id, dto, user) ==
  LET arg == [id |-> id, dto |-> dto, user |-> user]
      r == FindOne(id, user) IN
  IF r.err # "none" THEN
    /\ last' = Result("update", arg, r.err, r.msg, {})
    /\ UNCHANGED inflight
  ELSE
    /\ inflight' = inflight \cup {[call |-> call, id |-> id, dto |-> dto, user |-> user,
                                     task |-> CHOOSE t \in r.ret : TRUE]}
    /\ last' = Result("update", arg, "pending", "", {})

\* update after the load: the two checks, Object.assign(task, updateTaskDto)
\* and taskRepository.save(task). save writes the entity as the call holds
\* it: over the row stored under its id, or as a new row when none is
UpdateSave(c) ==
  LET arg == [id |-> c.id, dto |-> c.dto, user |-> c.user] IN
  /\ inflight' = inflight \ {c}
  /\ IF Truthy(c.dto, "status") /\ c.dto.status \notin TaskStatus THEN
       /\ last' = Result("update", arg, "BadRequestException", "Invalid task status", {})
       /\ UNCHANGED tasks
     ELSE IF Truthy(c.dto, "dueDate") /\ ParseDate(c.dto.dueDate).nan THEN
       /\ last' = Result("update", arg, "BadRequestException", "Invalid due date format", {})
       /\ UNCHANGED tasks
     ELSE IF StoreRejects(c.dto) THEN
       /\ last' = Result("update", arg, "QueryFailedError", "invalid input value", {})
       /\ UNCHANGED tasks
     ELSE
       LET saved == Assign(c.task, Columns(c.dto)) IN
       /\ tasks' = (tasks \ FindTaskById(c.id)) \cup {SavedRow(saved)}
       /\ last' = Result("update", arg, "none", "", {Assign(saved, SavedRow(saved))})

\* remove that deletes by owner instead of by id: every task of the owner of
\* the task goes
Remove_ByOwner(id, user) ==
  LET arg == [id |-> id, user |-> user]
      r == FindOne(id, user) IN
  IF r.err # "none" THEN
    /\ last' = Result("remove", arg, r.err, r.msg, {})
    /\ UNCHANGED tasks
  ELSE
    /\ tasks' = tasks \ { t \in tasks : \E task \in r.ret : t.userId = task.userId }
    /\ last' = Result("remove", arg, "none", "", {})

\* TasksService.remove
Remove(id, user) ==
  LET arg == [id |-> id, user |-> user]
      r == FindOne(id, user) IN
  IF r.err # "none" THEN
    /\ last' = Result("remove", arg, r.err, r.msg, {})
    /\ UNCHANGED tasks
  ELSE
    /\ tasks' = tasks \ { t \in tasks : \E task \in r.ret : t.id = task.id }
    /\ last' = Result("remove", arg, "none", "", {})

\* the query without its restriction to the caller's rows
Matching_Unscoped(user, q) ==
  { t \in tasks :
      /\ Truthy(q, "status") => t.status = q.status
      /\ "dueDate" \in DOMAIN q => ("dueDate" \in DOMAIN t /\ t.dueDate = q.dueDate) }

\* the query with its filters joined by OR instead of AND
Matching_EitherFilter(user, q) ==
  { t \in tasks :
      /\ user.role # "ADMIN" => t.userId = user.id
      /\ \/ ~Truthy(q, "status") /\ "dueDate" \notin DOMAIN q
         \/ Truthy(q, "status") /\ t.status = q.status
         \/ "dueDate" \in DOMAIN q /\ "dueDate" \in DOMAIN t /\ t.dueDate = q.dueDate }

\* the rows the query of findAll matches
Matching(user, q) ==
  { t \in tasks :
      /\ user.role # "ADMIN" => t.userId = user.id
      /\ Truthy(q, "status") => t.status = q.status
      /\ "dueDate" \in DOMAIN q => ("dueDate" \in DOMAIN t /\ t.dueDate = q.dueDate) }

\* the orders in which the store may return a set of rows (the query has no
\* ORDER BY)
Orderings(S) ==
  { o \in [1..Cardinality(S) -> S] : \A i, j \in DOMAIN o : i # j => o[i] # o[j] }

\* skip with pages counted from zero
Skip_ZeroBased(q) ==
  IF "page" \in DOMAIN q /\ q.page # 0
  THEN q.page * (IF "limit" \in DOMAIN q /\ q.limit # 0 THEN q.limit ELSE 10)
  ELSE 0

\* skip computed with the default limit whatever limit is asked for
Skip_DefaultLimit(q) == IF "page" \in DOMAIN q /\ q.page # 0 THEN (q.page - 1) * 10 ELSE 0

\* const skip = page ? (page - 1) * (limit || 10) : 0
Skip(q) ==
  IF "page" \in DOMAIN q /\ q.page # 0
  THEN (q.page - 1) * (IF "limit" \in DOMAIN q /\ q.limit # 0 THEN q.limit ELSE 10)
  ELSE 0

\* const take = limit || 10
Take(q) == IF "limit" \in DOMAIN q /\ q.limit # 0 THEN q.limit ELSE 10

\* .skip(skip).take(take) over the rows in the order returned
Page(rows, skip, take) ==
  [i \in 1..(IF Len(rows) - skip < 0 THEN 0
             ELSE IF Len(rows) - skip < take THEN Len(rows) - skip ELSE take)
     |-> rows[skip + i]]

\* { tasks, total } of getManyAndCount over the matching rows in the order
\* the store returns them
FindAllResult(q, rows) == [tasks |-> Page(rows, Skip(q), Take(q)), total |-> Len(rows)]

\* findAll with the user relation joined into the query
FindAll_Joined(user, q, rows) ==
  last' = Assign(Result("findAll", [user |-> user, q |-> q], "none", "",
                        {[tasks |-> [i \in DOMAIN FindAllResult(q, rows).tasks |->
                                       Loaded(FindAllResult(q, rows).tasks[i], {"user"})],
                          total |-> Len(rows)]}),
                 [query |-> [skip |-> Skip(q), take |-> Take(q)]])

\* TasksService.findAll; query records the skip and take handed to the query
\* builder
FindAll(user, q, rows) ==
  last' = Assign(Result("findAll", [user |-> user, q |-> q], "none", "",
                        {FindAllResult(q, rows)}),
                 [query |-> [skip |-> Skip(q), take |-> Take(q)]])

\* the DTOs handed to create
CreateInputs ==
  { [title |-> "t"],
    [title |-> "t", description |-> "d", status |-> "DONE", dueDate |-> "2025-01-01"],
    [description |-> "d"],
    [title |-> ""],
    [title |-> "t", status |-> "BOGUS"],
    [title |-> "t", dueDate |-> "not-a-date"] }

\* the patches handed to update
UpdateInputs ==
  { [status |-> "DONE"],
    [status |-> "BOGUS"] }

\* the query parameters handed to findAll
FindAllInputs ==
  { <<>>, [status |-> "TODO"], [page |-> 2, limit |-> 1] }

DoCreate ==
  /\ nextTaskId <= MaxTaskId
  /\ \E dto \in CreateInputs, user \in ActingUsers : Create(dto, user)
  /\ UNCHANGED <<users, now, inflight, redeemed>>

DoFindAll ==
  /\ \E user \in ActingUsers, q \in FindAllInputs :
       \E rows \in Orderings(Matching(user, q)) : FindAll(user, q, rows)
  /\ UNCHANGED <<users, tasks, nextTaskId, now, inflight, redeemed>>

DoFindOne ==
  /\ \E id \in TaskIds, user \in ActingUsers :
       LET r == FindOne(id, user) IN
       last' = Result("findOne", [id |-> id, user |-> user], r.err, r.msg, r.ret)
  /\ UNCHANGED <<users, tasks, nextTaskId, now, inflight, redeemed>>

DoUpdate ==
  /\ \E id \in TaskIds, dto \in UpdateInputs, user \in ActingUsers : Update(id, dto, user)
  /\ UNCHANGED <<users, nextTaskId, now, inflight, redeemed>>

DoRemove ==
  /\ \E id \in TaskIds, user \in ActingUsers : Remove(id, user)
  /\ UNCHANGED <<users, nextTaskId, now, inflight, redeemed>>

(* --------------------------- specifications ---------------------------- *)

Init ==
  /\ users = {}
  /\ tasks = {}
  /\ nextTaskId = 1
  /\ now = 0
  /\ last = Result("init", {}, "none", "", {})
  /\ inflight = {}
  /\ redeemed = <<>>

NextAuth == DoRegister \/ DoValidateUser \/ DoLogin \/ DoRefreshToken \/ Tick

SpecAuth == Init /\ [][NextAuth]_vars

\* the user store after register(admin@example.com), register(a@b.c) and
\* register(Admin@example.com)
SeededUsers ==
  { [id |-> 1, email |-> AdminEmail,
     password |-> bcryptHash(GoodPassword, SaltRounds), role |-> RoleFor(AdminEmail)],
    [id |-> 2, email |-> UserEmailA,
     password |-> bcryptHash(GoodPassword, SaltRounds), role |-> RoleFor(UserEmailA)],
    [id |-> 3, email |-> UpperAdminEmail,
     password |-> bcryptHash(GoodPassword, SaltRounds), role |-> RoleFor(UpperAdminEmail)] }

InitTasks ==
  /\ users = SeededUsers
  /\ tasks = {}
  /\ nextTaskId = 1
  /\ now = 0
  /\ last = Result("init", {}, "none", "", {})
  /\ inflight = {}
  /\ redeemed = <<>>

NextTasks == DoCreate \/ DoFindAll \/ DoFindOne \/ DoUpdate \/ DoRemove

SpecTasks == InitTasks /\ [][NextTasks]_vars

\* the tokens of the pair the latest login or refresh returned
IssuedTokens ==
  IF last.op \in {"login", "refreshToken"}
  THEN UNION { {pair.access_token, pair.refresh_token} : pair \in last.ret }
  ELSE {}

\* refreshToken called with a token the service has just issued
DoRefreshIssued ==
  /\ \E token \in IssuedTokens : RefreshToken(token)
  /\ UNCHANGED <<users, tasks, nextTaskId, now, inflight, redeemed>>

\* create called while no task is stored
DoCreateOne ==
  /\ tasks = {}
  /\ DoCreate

NextService ==
  \/ DoRegister \/ DoValidateUser \/ DoLogin \/ DoRefreshIssued
  \/ DoCreateOne \/ DoFindAll \/ DoFindOne \/ DoUpdate \/ DoRemove

\* both services over one store, from the empty store, at one instant
SpecService == Init /\ [][NextService]_vars

NextRegister == DoRegisterLookup \/ DoRegisterSave

\* register calls that overlap: each is a lookup step and a save step
SpecRegister == Init /\ [][NextRegister]_vars

\* the refresh tokens whose redemption is recorded
MaxRedeemed == 2

\* the refresh tokens a client holds: the one of the pair the latest login or
\* refresh returned, and those it has redeemed before
HeldRefreshTokens ==
  { t \in IssuedTokens : t.secret = RefreshTokenSecret }
    \cup { redeemed[i] : i \in DOMAIN redeemed }

\* refreshToken called with a held token; redeemed records the accepted ones
DoRedeem ==
  /\ \E token \in HeldRefreshTokens :
       /\ RefreshToken(token)
       /\ redeemed' = IF RefreshTry(token, now).thrown = "none" /\ Len(redeemed) < MaxRedeemed
                      THEN Append(redeemed, token) ELSE redeemed
  /\ UNCHANGED <<users, tasks, nextTaskId, now, inflight>>

NextRotate == DoLogin \/ DoRedeem \/ Tick

\* logins and refreshes of the seeded users as time passes
SpecRotate == InitTasks /\ [][NextRotate]_vars

\* JwtStrategy, the verifier behind the guard of the task routes: the bearer
\* token is verified with JWT_SECRET, expiry included, and validate() maps the
\* payload to the request's user; a token that fails is answered 401
JwtStrategy(token, t) ==
  LET v == Verify(JwtSecret, token, t) IN
  IF ~v.ok THEN [err |-> "UnauthorizedException", msg |-> "Unauthorized", ret |-> {}]
  ELSE [err |-> "none", msg |-> "",
        ret |-> {[id |-> v.payload.sub, email |-> v.payload.email, role |-> v.payload.role]}]

\* a request to a task route carrying an issued token as its bearer token
DoAuthenticate ==
  /\ \E token \in IssuedTokens :
       LET r == JwtStrategy(token, now) IN
       last' = Result("authenticate", [token |-> token, at |-> now], r.err, r.msg, r.ret)
  /\ UNCHANGED <<users, tasks, nextTaskId, now, inflight, redeemed>>

NextKeys == DoLogin \/ DoRefreshIssued \/ DoAuthenticate \/ Tick

\* each token of an issued pair presented to each of the two verifiers
SpecKeys == InitTasks /\ [][NextKeys]_vars

OtherEmail(email) == IF email = UserEmailA THEN AdminEmail ELSE UserEmailA

\* payloads naming a stored user: the one login would sign, and ones whose
\* email, role or both are not those of the stored record
DriftedPayloads ==
  LET Full == { PayloadOf(u) : u \in ActingUsers } IN
  Full
    \cup { [p EXCEPT !.role = OtherRole(p.role)] : p \in Full }
    \cup { [p EXCEPT !.email = OtherEmail(p.email)] : p \in Full }
    \cup { [p EXCEPT !.email = OtherEmail(p.email), !.role = OtherRole(p.role)] : p \in Full }

\* refreshToken called with a refresh-signed token carrying such a payload
DoRefreshDrifted ==
  /\ \E p \in DriftedPayloads, iat \in { i \in Times : i <= now } :
       RefreshToken(Sign(RefreshTokenSecret, RefreshTokenExpiration, p, iat))
  /\ UNCHANGED <<users, tasks, nextTaskId, now, inflight, redeemed>>

NextDrift == DoLogin \/ DoRefreshDrifted \/ Tick

\* refreshes with tokens whose payload disagrees with the stored user
SpecDrift == InitTasks /\ [][NextDrift]_vars

\* the patches of the overlapping updates: two that name different fields
RacePatches == { [status |-> "DONE"], [title |-> "u"] }

\* the callers of the overlapping calls: the accounts with the USER role
RaceUsers == { u \in ActingUsers : u.role = "USER" }

DoCreateRaced ==
  /\ tasks = {}
  /\ nextTaskId <= MaxTaskId
  /\ \E user \in RaceUsers : Create([title |-> "t"], user)
  /\ UNCHANGED <<users, now, inflight, redeemed>>

DoUpdateLoad ==
  /\ Cardinality(inflight) < MaxInflight
  /\ \E id \in TaskIds, dto \in RacePatches, user \in RaceUsers :
       UpdateLoad(CHOOSE n \in 1..MaxInflight : \A c \in inflight : c.call # n,
                  id, dto, user)
  /\ UNCHANGED <<users, tasks, nextTaskId, now, redeemed>>

DoUpdateSave ==
  /\ \E c \in inflight : UpdateSave(c)
  /\ UNCHANGED <<users, nextTaskId, now, redeemed>>

DoRemoveRaced ==
  /\ \E id \in TaskIds, user \in RaceUsers : Remove(id, user)
  /\ UNCHANGED <<users, nextTaskId, now, inflight, redeemed>>

NextRace == DoCreateRaced \/ DoUpdateLoad \/ DoUpdateSave \/ DoRemoveRaced

\* update calls that overlap each other and remove: each update is a load
\* step and a save step
SpecRace == InitTasks /\ [][NextRace]_vars

\* the DTOs handed to create when its checks and the ownership it gives are
\* examined: a status or a due date that is the empty string, an owner named
\* by the DTO
CreateDtos ==
  { [title |-> "t"],
    [title |-> "t", description |-> "d", status |-> "DONE", dueDate |-> "2025-01-01"],
    [title |-> "t", user |-> CHOOSE u \in ActingUsers : u.id = 1],
    [title |-> "t", userId |-> 1],
    [description |-> "d"],
    [title |-> ""],
    [title |-> "t", status |-> "BOGUS"],
    [title |-> "t", dueDate |-> "not-a-date"],
    [title |-> "t", status |-> ""],
    [title |-> "t", status |-> Null],
    [title |-> "t", dueDate |-> ""] }

\* the patches handed to update: each field alone, two together, the values
\* update has to refuse, and patches that name the owner
Patches ==
  { [title |-> "u"],
    [status |-> "DONE"],
    [dueDate |-> "2025-06-30"],
    [description |-> "e", status |-> "IN_PROGRESS"],
    [status |-> "BOGUS"],
    [dueDate |-> "not-a-date"],
    [status |-> ""],
    [status |-> Null],
    [dueDate |-> ""],
    [user |-> CHOOSE u \in ActingUsers : u.id = 1],
    [userId |-> 1] }

DoCreateDto ==
  /\ tasks = {}
  /\ nextTaskId <= MaxTaskId
  /\ \E dto \in CreateDtos, user \in ActingUsers : Create(dto, user)
  /\ UNCHANGED <<users, now, inflight, redeemed>>

DoPatch ==
  /\ \E id \in TaskIds, dto \in Patches, user \in ActingUsers : Update(id, dto, user)
  /\ UNCHANGED <<users, nextTaskId, now, inflight, redeemed>>

NextEdit == DoCreateDto \/ DoPatch \/ DoFindOne \/ DoRemove

\* one task at a time, created from any DTO and patched with any patch
SpecEdit == InitTasks /\ [][NextEdit]_vars

\* the pages and limits asked for
PageInputs == 1..4
LimitInputs == 1..2

\* the queries that page through the store: every page and limit, each
\* alone, and neither
PageQueries ==
  { [page |-> p, limit |-> l] : p \in PageInputs, l \in LimitInputs }
    \cup { [page |-> p] : p \in PageInputs }
    \cup { [limit |-> l] : l \in LimitInputs }
    \cup { <<>> }

DoCreatePaged ==
  /\ nextTaskId <= MaxListTasks
  /\ \E user \in ActingUsers : user.role = "USER" /\ Create([title |-> "t"], user)
  /\ UNCHANGED <<users, now, inflight, redeemed>>

DoListPage ==
  /\ \E user \in ActingUsers, q \in PageQueries :
       \E rows \in Orderings(Matching(user, q)) : FindAll(user, q, rows)
  /\ UNCHANGED <<users, tasks, nextTaskId, now, inflight, redeemed>>

NextPages == DoCreatePaged \/ DoListPage

\* a store that the USER accounts fill up and every account lists page by
\* page
SpecPages == InitTasks /\ [][NextPages]_vars

\* the DTOs of tasks that differ in status and due date
FilterDtos ==
  { [title |-> "t"],
    [title |-> "t", dueDate |-> "2025-01-01"],
    [title |-> "t", status |-> "DONE", dueDate |-> "2025-01-01"] }

\* the queries that filter: each filter alone, both, and a filter with a page
FilterQueries ==
  { <<>>,
    [status |-> "TODO"],
    [status |-> "IN_PROGRESS"],
    [dueDate |-> ParseDate("2025-01-01").time],
    [dueDate |-> ParseDate("2025-06-30").time],
    [status |-> "TODO", dueDate |-> ParseDate("2025-01-01").time],
    [status |-> "TODO", page |-> 2, limit |-> 1] }

DoCreateFiltered ==
  /\ nextTaskId <= MaxTaskId
  /\ \E dto \in FilterDtos, user \in ActingUsers : Create(dto, user)
  /\ UNCHANGED <<users, now, inflight, redeemed>>

DoListFiltered ==
  /\ \E user \in ActingUsers, q \in FilterQueries :
       \E rows \in Orderings(Matching(user, q)) : FindAll(user, q, rows)
  /\ UNCHANGED <<users, tasks, nextTaskId, now, inflight, redeemed>>

NextFilters == DoCreateFiltered \/ DoListFiltered

\* a store of tasks of several statuses and due dates, listed with filters
SpecFilters == InitTasks /\ [][NextFilters]_vars

(* -------------------------- TasksController ---------------------------- *)

\* Number(s) of a query-string value, in tenths, or NaN
QueryNumber(s) ==
  CASE s = "1" -> [nan |-> FALSE, tenths |-> 10]
    [] s = "2" -> [nan |-> FALSE, tenths |-> 20]
    [] s = "0" -> [nan |-> FALSE, tenths |-> 0]
    [] s = "-1" -> [nan |-> FALSE, tenths |-> -10]
    [] s = "1.5" -> [nan |-> FALSE, tenths |-> 15]
    [] OTHER -> [nan |-> TRUE]

\* isNaN(n) || n < 1
NotPositive(n) == n.nan \/ n.tenths < 10

\* the checks of TasksController.findAll on page and limit: the exception
\* thrown, or the page and limit handed to TasksService.findAll
FindAllChecks(query) ==
  IF "page" \in DOMAIN query /\ NotPositive(QueryNumber(query.page)) THEN
    [err |-> "BadRequestException", msg |-> "Page must be a positive number"]
  ELSE IF "limit" \in DOMAIN query /\ NotPositive(QueryNumber(query.limit)) THEN
    [err |-> "BadRequestException", msg |-> "Limit must be a positive number"]
  ELSE
    [err |-> "none", msg |-> "",
     args |-> [f \in DOMAIN query \cap {"page", "limit"} |-> QueryNumber(query[f])]]

\* skip of findAll over numbers that need not be whole, in hundredths
SkipHundredths(args) ==
  IF "page" \in DOMAIN args /\ args.page.tenths # 0
  THEN (args.page.tenths - 10)
         * (IF "limit" \in DOMAIN args /\ args.limit.tenths # 0 THEN args.limit.tenths ELSE 100)
  ELSE 0

\* take of findAll over numbers that need not be whole, in tenths
TakeTenths(args) ==
  IF "limit" \in DOMAIN args /\ args.limit.tenths # 0 THEN args.limit.tenths ELSE 100

\* what the store makes of an OFFSET or LIMIT that is no whole number
FractionOutcomes == {"QueryFailedError", "floor", "ceil"}

\* the filters of the request as TasksService.findAll receives them:
\* status, dueDate ? new Date(dueDate) : undefined
FiltersOf(query) ==
  [f \in DOMAIN query \cap {"status", "dueDate"} |->
     IF f = "dueDate" THEN ParseDate(query[f]).time ELSE query[f]]

\* the window the store returns for a skip and a take that may be no whole
\* numbers, rounded as the outcome says
Window(rows, args, outcome) ==
  LET up == IF outcome = "ceil" THEN 1 ELSE 0
      skip == (SkipHundredths(args) \div 100)
                + (IF SkipHundredths(args) % 100 = 0 THEN 0 ELSE up)
      take == (TakeTenths(args) \div 10) + (IF TakeTenths(args) % 10 = 0 THEN 0 ELSE up) IN
  [tasks |-> Page(rows, skip, take), total |-> Len(rows)]

\* GET /tasks: TasksController.findAll, with the call of TasksService.findAll
\* it makes; invoked holds the page and limit of that call
FindAllHandler(user, query) ==
  LET arg == [user |-> user, query |-> query]
      c == FindAllChecks(query) IN
  IF c.err # "none" THEN
    last' = Assign(Result("GET /tasks", arg, c.err, c.msg, {}), [invoked |-> {}])
  ELSE
    \E rows \in Orderings(Matching(user, FiltersOf(query))) :
      IF SkipHundredths(c.args) % 100 = 0 /\ TakeTenths(c.args) % 10 = 0 THEN
        last' = Assign(Result("GET /tasks", arg, "none", "", {Window(rows, c.args, "floor")}),
                       [invoked |-> {c.args}])
      ELSE
        \E outcome \in FractionOutcomes :
          IF outcome = "QueryFailedError" THEN
            last' = Assign(Result("GET /tasks", arg, "QueryFailedError",
                                  "invalid input value", {}),
                           [invoked |-> {c.args}])
          ELSE
            last' = Assign(Result("GET /tasks", arg, "none", "",
                                  {Window(rows, c.args, outcome)}),
                           [invoked |-> {c.args}])

\* the values of page and of limit in the query string
QueryValues == {"1", "2", "0", "-1", "1.5", "abc"}

\* the query strings of GET /tasks
ListRequests ==
  { [page |-> p, limit |-> l] : p \in QueryValues, l \in QueryValues }
    \cup { [page |-> p] : p \in QueryValues }
    \cup { [limit |-> l] : l \in QueryValues }
    \cup { <<>>, [status |-> "TODO"], [dueDate |-> "2025-01-01"] }

DoGetTasks ==
  /\ \E user \in ActingUsers, query \in ListRequests : FindAllHandler(user, query)
  /\ UNCHANGED <<users, tasks, nextTaskId, now, inflight, redeemed>>

NextHttp == DoCreatePaged \/ DoGetTasks

\* a store that fills up and is listed through the HTTP boundary
SpecHttp == InitTasks /\ [][NextHttp]_vars

(* ------------------------------ claims --------------------------------- *)

\* a step of SpecAuth that is a call of the operation op
AuthCall(op) == last'.op = op /\ now' = now

\* the local@domain.tld shape: exactly one "@", no white space, and after the
\* "@" a "." with at least one character on each side; at least one
\* character before the "@"
HasEmailShape(email) ==
  /\ Cardinality({ i \in DOMAIN email : email[i] = "@" }) = 1
  /\ \A i \in DOMAIN email : email[i] # " "
  /\ LET at == CHOOSE i \in DOMAIN email : email[i] = "@" IN
     /\ at > 1
     /\ \E j \in DOMAIN email : email[j] = "." /\ j > at + 1 /\ j < Len(email)

\* the users stored under an email
StoredUnder(email) == { u \in users : u.email = email }

\* C3: of the register calls with a well-formed email and a valid password,
\* the first for an email succeeds and creates exactly one user, with that
\* email; every later one for the same email fails with "Email already
\* exists" (DuplicateResource) and creates no user; no two stored users ever
\* share an email.
C3_RegisterOncePerEmail ==
  [][ /\ (AuthCall("register") /\ HasEmailShape(last'.arg.email)
            /\ Len(last'.arg.password) >= 6) =>
          IF StoredUnder(last'.arg.email) = {}
          THEN /\ last'.err = "none"
               /\ users \subseteq users'
               /\ Cardinality(users' \ users) = 1
               /\ \A u \in users' \ users : u.email = last'.arg.email /\ last'.ret = {u}
          ELSE /\ last'.err = "BadRequestException"
               /\ last'.msg = "Email already exists"
               /\ last'.ret = {}
               /\ users' = users
      /\ \A u, v \in users' : u.email = v.email => u = v ]_vars

C3_Witness ==
  /\ last.op = "register"
  /\ last.msg = "Email already exists"
  /\ StoredUnder(last.arg.email) # {}
  /\ Cardinality(users) >= 2

\* C4: a successful register creates a user whose role is ADMIN exactly when
\* the email is admin@example.com, and USER otherwise; so every stored user's
\* role is determined by its email.
C4_RoleFromEmail ==
  /\ (last.op = "register" /\ last.err = "none") =>
        \A u \in last.ret :
          /\ u.email = last.arg.email
          /\ u.role \in {"ADMIN", "USER"}
          /\ u.role = "ADMIN" <=>
               last.arg.email = <<"a","d","m","i","n","@","e","x","a","m","p","l","e",".","c","o","m">>
  /\ \A u \in users :
        u.role = IF u.email = <<"a","d","m","i","n","@","e","x","a","m","p","l","e",".","c","o","m">>
                 THEN "ADMIN" ELSE "USER"

C4_Witness ==
  /\ last.op = "register"
  /\ last.err = "none"
  /\ \E u, v \in users :
        /\ u.email = AdminEmail /\ u.role = "ADMIN"
        /\ v.email = UpperAdminEmail /\ v.role = "USER"

\* C5: register fails with BadRequest (InvalidInput) when the email has not
\* the local@domain.tld shape or the password has fewer than 6 characters,
\* whatever the store holds (the failure is never "Email already exists"),
\* and the user store is unchanged.
C5_RegisterInvalidInput ==
  [][ (AuthCall("register")
        /\ (~HasEmailShape(last'.arg.email) \/ Len(last'.arg.password) < 6)) =>
        /\ last'.err = "BadRequestException"
        /\ last'.msg = IF ~HasEmailShape(last'.arg.email)
                       THEN "Invalid email format"
                       ELSE "Password must be at least 6 characters long"
        /\ last'.ret = {}
        /\ users' = users ]_vars

C5_Witness ==
  /\ last.op = "register"
  /\ last.err = "BadRequestException"
  /\ Len(last.arg.password) < 6
  /\ StoredUnder(last.arg.email) # {}

\* C6: validateUser returns the stored user without its password field when
\* the email is registered and the password is the one whose hash is stored;
\* it returns null, and throws nothing, when the email is unknown or the
\* password is another one; it never modifies the user store.
C6_ValidateUser ==
  [][ AuthCall("validateUser") =>
        /\ users' = users
        /\ last'.err = "none"
        /\ LET match == { u \in users : /\ u.email = last'.arg.email
                                        /\ u.password.of = last'.arg.password } IN
           last'.ret = { [id |-> u.id, email |-> u.email, role |-> u.role] : u \in match } ]_vars

C6_Witness ==
  /\ last.op = "validateUser"
  /\ \E r \in last.ret : r.email = last.arg.email /\ "password" \notin DOMAIN r

\* the refresh tokens login returns for a stored user
IssuedTo(u) ==
  { login([id |-> u.id, email |-> u.email, role |-> u.role], t).refresh_token : t \in Times }

\* C7: for a registered user u, refreshToken of a refresh token that login(u)
\* returned, presented before it expires, succeeds and returns an access and
\* a refresh token signed at the time of the call, each with the payload
\* sub = u.id, email = u.email, role = u.role.
C7_LoginThenRefresh ==
  last.op = "refreshToken" =>
    \A u \in users :
      (last.arg.token \in IssuedTo(u) /\ last.arg.at < last.arg.token.exp) =>
        /\ last.err = "none"
        /\ Cardinality(last.ret) = 1
        /\ \A pair \in last.ret :
             /\ pair.access_token.payload = [sub |-> u.id, email |-> u.email, role |-> u.role]
             /\ pair.refresh_token.payload = [sub |-> u.id, email |-> u.email, role |-> u.role]
             /\ pair.access_token.secret = JwtSecret
             /\ pair.refresh_token.secret = RefreshTokenSecret
             /\ pair.access_token.iat = last.arg.at
             /\ pair.refresh_token.iat = last.arg.at

C7_Witness ==
  /\ last.op = "refreshToken"
  /\ last.err = "none"
  /\ \E u \in users :
        /\ last.arg.token \in IssuedTo(u)
        /\ last.arg.token.iat < last.arg.at
        /\ \A pair \in last.ret : pair.refresh_token.payload.sub = u.id

\* verification of a presented refresh token fails: it is no token, it is not
\* signed with the refresh secret, or it has expired
FailsVerification(token, at) ==
  \/ "malformed" \in DOMAIN token
  \/ token.secret # "your-refresh-secret-key"
  \/ at >= token.exp

\* C8: whenever verification of the presented refresh token fails (malformed,
\* wrong signature, expired), refreshToken fails with UnauthorizedException
\* and no other error, and returns no token pair.
C8_RefreshUnverified ==
  (last.op = "refreshToken" /\ FailsVerification(last.arg.token, last.arg.at)) =>
    /\ last.err = "UnauthorizedException"
    /\ last.ret = {}

C8_Witness ==
  /\ last.op = "refreshToken"
  /\ last.err = "UnauthorizedException"
  /\ "malformed" \notin DOMAIN last.arg.token
  /\ last.arg.token.secret = RefreshTokenSecret
  /\ last.arg.at >= last.arg.token.exp
  /\ \E u \in users : last.arg.token \in IssuedTo(u)

\* the payload of a token that names its three fields
NamesAll(payload) == {"sub", "email", "role"} \subseteq DOMAIN payload

\* C9: refreshToken of a correctly signed, unexpired token fails with
\* UnauthorizedException when the payload lacks sub, email or role, and when
\* sub is the id of no stored user; a token pair is returned only when the
\* payload names all three and sub is the id of a stored user.
C9_RefreshPayloadAndUser ==
  last.op = "refreshToken" =>
    /\ ~FailsVerification(last.arg.token, last.arg.at) =>
         LET payload == last.arg.token.payload IN
         (~NamesAll(payload) \/ ~\E u \in users : u.id = payload.sub) =>
           (last.err = "UnauthorizedException" /\ last.ret = {})
    /\ last.ret # {} =>
         /\ ~FailsVerification(last.arg.token, last.arg.at)
         /\ NamesAll(last.arg.token.payload)
         /\ \E u \in users : u.id = last.arg.token.payload.sub

C9_Witness ==
  /\ last.op = "refreshToken"
  /\ last.err = "UnauthorizedException"
  /\ ~FailsVerification(last.arg.token, last.arg.at)
  /\ DOMAIN last.arg.token.payload = {"sub", "email"}
  /\ \E u \in users : u.id = last.arg.token.payload.sub

\* the stored tasks with an id
StoredTask(id) == { t \in tasks : t.id = id }

\* the acting user may act on the task: it is an ADMIN or the task's owner
Entitled(user, task) == user.role = "ADMIN" \/ task.userId = user.id

\* C1: findOne, update and remove of an existing task fail with
\* ForbiddenException exactly when the acting user is neither an ADMIN nor
\* the task's owner: a non-admin is allowed iff it owns the task, an ADMIN is
\* allowed on every task.
C1_OwnerOrAdmin ==
  [][ (last'.op \in {"findOne", "update", "remove"} /\ StoredTask(last'.arg.id) # {}) =>
        \A task \in StoredTask(last'.arg.id) :
          (last'.err = "ForbiddenException") <=> ~Entitled(last'.arg.user, task) ]_vars

C1_Witness ==
  /\ last.op = "remove"
  /\ last.err = "ForbiddenException"
  /\ last.arg.user.role = "USER"
  /\ \E t \in tasks : t.id = last.arg.id /\ t.userId # last.arg.user.id

\* the columns of a returned task
Row(entity) == [f \in DOMAIN entity \ {"user"} |-> entity[f]]

\* the elements of a sequence
Range(seq) == { seq[i] : i \in DOMAIN seq }

\* the query names neither filter
Unfiltered(q) == DOMAIN q \cap {"status", "dueDate"} = {}

\* C2: findAll called by a non-admin returns only tasks that user owns, and
\* its total counts only those; called by an ADMIN it ranges over the tasks
\* of all users.
C2_ListScope ==
  last.op = "findAll" =>
    \A r \in last.ret :
      LET user == last.arg.user
          own == { t \in tasks : t.userId = user.id } IN
      IF user.role # "ADMIN"
      THEN /\ Range(r.tasks) \subseteq own
           /\ r.total <= Cardinality(own)
           /\ Unfiltered(last.arg.q) => r.total = Cardinality(own)
      ELSE /\ Range(r.tasks) \subseteq tasks
           /\ Unfiltered(last.arg.q) => r.total = Cardinality(tasks)
           /\ last.arg.q = <<>> => Range(r.tasks) = tasks

C2_Witness ==
  /\ last.op = "findAll"
  /\ last.arg.user.role = "USER"
  /\ last.arg.q = <<>>
  /\ \E t \in tasks : t.userId = last.arg.user.id
  /\ \E t \in tasks : t.userId # last.arg.user.id
  /\ \A r \in last.ret : r.total = 1

\* C10: findOne fails with NotFoundException when no task has the id, whoever
\* asks; with ForbiddenException when the task exists and the acting user is
\* neither its owner nor an ADMIN; otherwise it returns the task; in every
\* case it leaves the stores unchanged.
C10_FindOne ==
  [][ last'.op = "findOne" =>
        /\ tasks' = tasks
        /\ users' = users
        /\ IF StoredTask(last'.arg.id) = {}
           THEN last'.err = "NotFoundException" /\ last'.ret = {}
           ELSE \A task \in StoredTask(last'.arg.id) :
                  IF Entitled(last'.arg.user, task)
                  THEN last'.err = "none" /\ { Row(e) : e \in last'.ret } = {task}
                  ELSE last'.err = "ForbiddenException" /\ last'.ret = {} ]_vars

C10_Witness ==
  /\ last.op = "findOne"
  /\ last.err = "NotFoundException"
  /\ last.arg.user.role = "USER"
  /\ tasks # {}
  /\ \A t \in tasks : t.userId # last.arg.user.id

\* the strings that parse as a date
ParsesAsDate(s) == s \in {"2025-01-01", "2025-01-01T00:00:00.000Z", "2025-06-30"}

\* the DTO or patch names a status outside TODO / IN_PROGRESS / DONE
NamesBadStatus(dto) ==
  "status" \in DOMAIN dto /\ dto.status \notin {"TODO", "IN_PROGRESS", "DONE"}

\* the DTO or patch names a due date that does not parse
NamesBadDueDate(dto) == "dueDate" \in DOMAIN dto /\ ~ParsesAsDate(dto.dueDate)

\* C11: update fails with NotFoundException when no task has the id and with
\* ForbiddenException when the acting user is neither owner nor ADMIN, before
\* anything else; for a task the user may change it fails with
\* BadRequestException (InvalidInput) when the patch's status is not one of
\* TODO / IN_PROGRESS / DONE or its due date does not parse; every failing
\* update leaves the stored tasks unchanged.
C11_UpdateFailures ==
  [][ last'.op = "update" =>
        LET stored == StoredTask(last'.arg.id)
            dto == last'.arg.dto IN
        /\ stored = {} => last'.err = "NotFoundException"
        /\ \A task \in stored :
             IF ~Entitled(last'.arg.user, task)
             THEN last'.err = "ForbiddenException"
             ELSE (NamesBadStatus(dto) \/ NamesBadDueDate(dto)) =>
                    last'.err = "BadRequestException"
        /\ last'.err # "none" => tasks' = tasks ]_vars

\* the fields of a task the claims speak of: the owner is the userId column
TaskFields == {"id", "title", "description", "status", "dueDate", "userId"}

\* C12: a successful update changes exactly the fields the patch names: the
\* task is still stored under its id, each of title, description and status
\* the patch names has the patch's value, a due date the patch names is set,
\* and every field the patch does not name (title, description, status, due
\* date, owner, id) is as it was, absent if it was absent; a patch that names
\* the user names the owner.
C12_PartialUpdate ==
  [][ (last'.op = "update" /\ last'.err = "none") =>
        LET dto == last'.arg.dto IN
        \A task \in StoredTask(last'.arg.id) :
          /\ Cardinality({ t \in tasks' : t.id = task.id }) = 1
          /\ \A t \in tasks' : t.id = task.id =>
               /\ \A f \in (TaskFields \ DOMAIN dto)
                            \ (IF "user" \in DOMAIN dto THEN {"userId"} ELSE {}) :
                    /\ f \in DOMAIN t <=> f \in DOMAIN task
                    /\ f \in DOMAIN task => t[f] = task[f]
               /\ \A f \in DOMAIN dto \cap {"title", "description", "status"} :
                    f \in DOMAIN t /\ t[f] = dto[f]
               /\ "dueDate" \in DOMAIN dto => "dueDate" \in DOMAIN t ]_vars

C12_Witness ==
  /\ last.op = "update"
  /\ last.err = "none"
  /\ last.arg.dto = [title |-> "u"]
  /\ \E t \in tasks :
       /\ t.id = last.arg.id
       /\ t.title = "u"
       /\ t.status = "DONE"
       /\ "dueDate" \in DOMAIN t /\ "description" \in DOMAIN t

\* C13: remove by the owner or an ADMIN removes exactly the task with that id
\* and leaves every other task as it was, so that findOne of the id then
\* fails with NotFoundException (no id is handed out twice); remove of an id
\* no task has fails with NotFoundException; remove by a user who is neither
\* owner nor ADMIN fails with ForbiddenException and the task stays stored.
C13_Remove ==
  [][ last'.op = "remove" =>
        LET stored == StoredTask(last'.arg.id) IN
        /\ stored = {} => last'.err = "NotFoundException" /\ tasks' = tasks
        /\ \A task \in stored :
             IF Entitled(last'.arg.user, task)
             THEN /\ last'.err = "none"
                  /\ tasks' = tasks \ {task}
                  /\ \A t \in tasks' : t.id # last'.arg.id
                  /\ \A id \in TaskIds, user \in ActingUsers :
                       id = last'.arg.id => FindOne(id, user)'.err = "NotFoundException"
                  /\ nextTaskId' > last'.arg.id
             ELSE /\ last'.err = "ForbiddenException"
                  /\ tasks' = tasks ]_vars

C13_Witness ==
  /\ last.op = "remove"
  /\ last.err = "none"
  /\ last.arg.user.role = "USER"
  /\ last.arg.id = 1
  /\ \E t \in tasks : t.id = 2 /\ t.userId = last.arg.user.id
  /\ \A t \in tasks : t.id # 1

\* C14: create fails with BadRequestException (InvalidInput) when the title
\* is missing or empty, when the status the DTO names is not one of TODO /
\* IN_PROGRESS / DONE, and when the due date it names does not parse; in each
\* of these cases no task is persisted.
C14_CreateInvalidInput ==
  [][ (/\ last'.op = "create"
       /\ LET dto == last'.arg.dto IN
          \/ "title" \notin DOMAIN dto
          \/ dto.title = ""
          \/ NamesBadStatus(dto)
          \/ NamesBadDueDate(dto)) =>
        /\ last'.err = "BadRequestException"
        /\ tasks' = tasks ]_vars

\* C15: a successful create persists exactly one new task and its owner is
\* the acting user, whatever the DTO names (a user, a userId); the creator
\* may then get it, and no findOne, update or remove of a task by its owner
\* fails with ForbiddenException or NotFoundException.
C15_CreatorOwns ==
  [][ /\ (last'.op = "create" /\ last'.err = "none") =>
           /\ tasks \subseteq tasks'
           /\ Cardinality(tasks' \ tasks) = 1
           /\ \A t \in tasks' \ tasks :
                /\ t.userId = last'.arg.user.id
                /\ \A id \in TaskIds, user \in ActingUsers :
                     (id = t.id /\ user = last'.arg.user) =>
                        /\ FindOne(id, user)'.err = "none"
                        /\ \A e \in FindOne(id, user)'.ret : Row(e) = t
      /\ last'.op \in {"findOne", "update", "remove"} =>
           \A t \in StoredTask(last'.arg.id) :
             t.userId = last'.arg.user.id =>
               last'.err \notin {"ForbiddenException", "NotFoundException"} ]_vars

C15_Witness ==
  /\ last.op = "create"
  /\ last.err = "none"
  /\ "user" \in DOMAIN last.arg.dto
  /\ last.arg.dto.user.id # last.arg.user.id
  /\ \E t \in tasks : t.userId = last.arg.user.id /\ last.arg.user.role = "USER"

\* the tasks within the caller's scope that satisfy every filter a query names
Satisfying(user, q) ==
  { t \in tasks :
      /\ user.role = "ADMIN" \/ t.userId = user.id
      /\ "status" \in DOMAIN q => t.status = q.status
      /\ "dueDate" \in DOMAIN q => "dueDate" \in DOMAIN t /\ t.dueDate = q.dueDate }

Min(a, b) == IF a < b THEN a ELSE b
Max(a, b) == IF a > b THEN a ELSE b

\* C16: for page >= 1 and limit >= 1, findAll returns
\* min(limit, max(0, N - (page-1)*limit)) distinct tasks out of the N that
\* match, and total = N whatever the page and the limit; a page past the end
\* is an empty list with total = N and no error.
C16_Pagination ==
  (/\ last.op = "findAll"
   /\ {"page", "limit"} \subseteq DOMAIN last.arg.q
   /\ last.arg.q.page >= 1 /\ last.arg.q.limit >= 1) =>
    LET q == last.arg.q
        N == Cardinality(Satisfying(last.arg.user, q)) IN
    /\ last.err = "none"
    /\ \A r \in last.ret :
         /\ r.total = N
         /\ Len(r.tasks) = Min(q.limit, Max(0, N - (q.page - 1) * q.limit))
         /\ Cardinality(Range(r.tasks)) = Len(r.tasks)
         /\ Range(r.tasks) \subseteq Satisfying(last.arg.user, q)

C16_Witness ==
  /\ last.op = "findAll"
  /\ last.arg.q = [page |-> 2, limit |-> 2]
  /\ last.arg.user.role = "ADMIN"
  /\ \A r \in last.ret : r.total = 3 /\ Len(r.tasks) = 1

\* C17: findAll with page omitted skips nothing, as page = 1 does; with limit
\* omitted it takes 10 and skips (page-1)*10; always skip = (page-1)*limit
\* and take = limit for the effective page and limit, and the list returned
\* is that window of the matching tasks.
C17_PageDefaults ==
  last.op = "findAll" =>
    LET q == last.arg.q
        page == IF "page" \in DOMAIN q THEN q.page ELSE 1
        limit == IF "limit" \in DOMAIN q THEN q.limit ELSE 10
        N == Cardinality(Satisfying(last.arg.user, q)) IN
    /\ last.query.skip = (page - 1) * limit
    /\ last.query.take = limit
    /\ \A r \in last.ret :
         Len(r.tasks) = Min(limit, Max(0, N - (page - 1) * limit))

C17_Witness ==
  /\ last.op = "findAll"
  /\ last.arg.q = [page |-> 2]
  /\ last.query = [skip |-> 10, take |-> 10]
  /\ \A r \in last.ret : r.total = 3 /\ r.tasks = <<>>

\* C18: the status and due-date filters of findAll are exact matches joined
\* by AND to the restriction to the caller's scope: every task returned has
\* the status and the due date asked for and is in the caller's scope, total
\* is the number of tasks that satisfy all the conditions, and a query with
\* no page returns them all (fewer than ten are stored).
C18_Filters ==
  last.op = "findAll" =>
    LET q == last.arg.q
        user == last.arg.user IN
    \A r \in last.ret :
      /\ \A t \in Range(r.tasks) :
           /\ t \in tasks
           /\ "status" \in DOMAIN q => t.status = q.status
           /\ "dueDate" \in DOMAIN q => "dueDate" \in DOMAIN t /\ t.dueDate = q.dueDate
           /\ user.role = "ADMIN" \/ t.userId = user.id
      /\ r.total = Cardinality(Satisfying(user, q))
      /\ "page" \notin DOMAIN q => Range(r.tasks) = Satisfying(user, q)

C18_Witness ==
  /\ last.op = "findAll"
  /\ {"status", "dueDate"} \subseteq DOMAIN last.arg.q
  /\ last.arg.user.role = "USER"
  /\ \E t \in tasks : t.userId = last.arg.user.id /\ t.status = "DONE" /\ "dueDate" \in DOMAIN t
  /\ \E t \in tasks : t.userId = last.arg.user.id /\ t.status = "TODO" /\ "dueDate" \in DOMAIN t
  /\ \A r \in last.ret : r.total = 1 /\ Len(r.tasks) = 1

\* C19 as claimed: every task findAll returns has its owner relation
\* populated, as the task findOne returns has.
C19_ListLoadsOwner ==
  /\ (last.op = "findOne" /\ last.err = "none") =>
       \A e \in last.ret : "user" \in DOMAIN e /\ e.user.id = e.userId
  /\ last.op = "findAll" =>
       \A r \in last.ret : \A t \in Range(r.tasks) :
         "user" \in DOMAIN t /\ t.user.id = t.userId

\* C19 amended: the task findOne returns has its owner relation populated
\* with the stored user; the tasks findAll returns are the stored rows, which
\* name the owner by userId only: findAll joins no relation into its query.
C19_OwnerRelation ==
  /\ (last.op = "findOne" /\ last.err = "none") =>
       \A e \in last.ret :
         "user" \in DOMAIN e /\ e.user \in users /\ e.user.id = e.userId
  /\ last.op = "findAll" =>
       \A r \in last.ret : \A t \in Range(r.tasks) :
         "user" \notin DOMAIN t /\ t \in tasks /\ \E u \in users : u.id = t.userId

C19_Witness ==
  /\ last.op = "findAll"
  /\ \E r \in last.ret : \E t \in Range(r.tasks) :
       t.userId = last.arg.user.id /\ "user" \notin DOMAIN t

\* the query-string values that are positive integers
PositiveIntegers == {"1", "2"}

\* C20: GET /tasks is rejected with BadRequestException, and
\* TasksService.findAll is not invoked, whenever a supplied page or limit is
\* not a positive integer (zero, negative, non-numeric or fractional);
\* TasksService.findAll is only ever invoked with page and limit that are
\* absent or positive integers.
C20_ListRequestChecked ==
  last.op = "GET /tasks" =>
    LET query == last.arg.query IN
    /\ (\E f \in DOMAIN query \cap {"page", "limit"} : query[f] \notin PositiveIntegers) =>
          last.err = "BadRequestException" /\ last.invoked = {}
    /\ \A args \in last.invoked : \A f \in DOMAIN args :
         ~args[f].nan /\ args[f].tenths >= 10 /\ args[f].tenths % 10 = 0

C22_OwnershipFixed ==
  [][ \A t \in tasks : \A t2 \in tasks' : t2.id = t.id => t2.userId = t.userId ]_vars

\* C23: the value register returns to its caller does not contain the user's
\* password hash, and neither does the value validateUser returns.
C23_NoHashReturned ==
  last.op \in {"register", "validateUser"} =>
    \A r \in last.ret : "password" \notin DOMAIN r

\* C24: whatever operation of the auth service or the task service runs, every
\* user stored before it is still stored after it, with the same id, email
\* and role.
C24_UsersKept ==
  [][ \A u \in users :
        \E v \in users' : v.id = u.id /\ v.email = u.email /\ v.role = u.role ]_vars

\* a task of a stored user has been removed, and a registration for an email
\* already stored has been made, with every account still there
C24_Witness ==
  /\ last.op = "register"
  /\ last.err = "BadRequestException"
  /\ last.msg = "Email already exists"
  /\ Cardinality(users) = MaxUsers
  /\ nextTaskId > 1
  /\ tasks = {}

\* C25: register checks the email and inserts in two steps: a call that has
\* passed its lookup always reaches save, and its save is never refused by
\* the service, whatever has been stored under the email in between; when
\* save succeeds a new record is stored, also next to one with the same email.
C25_CheckThenInsert ==
  [][ \A c \in inflight :
        c \notin inflight' =>
          /\ last'.op = "register"
          /\ last'.arg = [email |-> c.email, password |-> c.password]
          /\ last'.err \in {"none", "QueryFailedError"}
          /\ last'.err = "none" =>
               /\ last'.ret \cap users = {}
               /\ users' = users \cup last'.ret
               /\ \A u \in last'.ret : u.email = c.email ]_vars

\* two overlapping calls for one email have both passed the lookup and both
\* reached save: the second save met a record stored under its email
C25_Witness ==
  /\ inflight = {}
  /\ last.op = "register"
  /\ last.err \in {"none", "QueryFailedError"}
  /\ \E u \in users : u.email = last.arg.email /\ u \notin last.ret

\* C26: refresh rotates without revoking: a refresh token that refreshToken
\* has accepted is accepted again whenever it is presented before it expires,
\* whatever logins and refreshes have happened since.
C26_NoRevocation ==
  [][ ( /\ last'.op = "refreshToken"
        /\ \E i \in DOMAIN redeemed : redeemed[i] = last'.arg.token
        /\ last'.arg.at < last'.arg.token.exp )
      => ( /\ last'.err = "none"
           /\ Cardinality(last'.ret) = 1 ) ]_vars

\* the same token has been redeemed twice, the second time after a newer
\* pair had been issued for it
C26_Witness ==
  /\ Len(redeemed) = 2
  /\ redeemed[1] = redeemed[2]
  /\ last.op = "refreshToken"
  /\ last.err = "none"
  /\ last.arg.token = redeemed[1]
  /\ last.arg.at > redeemed[1].iat

\* C27: with the two secrets configured differently, refreshToken answers
\* Unauthorized to an access token that login issued, and the verifier of the
\* task routes does not accept a refresh token that login issued.
C27_IndependentKeys ==
  /\ JwtSecret # RefreshTokenSecret
  /\ \A u \in ActingUsers, iat \in Times :
       /\ ( last.op = "refreshToken" /\ last.arg.token = login(u, iat).access_token )
            => ( last.err = "UnauthorizedException" /\ last.ret = {} )
       /\ ( last.op = "authenticate" /\ last.arg.token = login(u, iat).refresh_token )
            => ( last.err = "UnauthorizedException" /\ last.ret = {} )

\* a refresh token that login issued and that has not expired has been
\* presented as a bearer token and refused
C27_Witness ==
  /\ last.op = "authenticate"
  /\ \E u \in ActingUsers : last.arg.token = login(u, 0).refresh_token
  /\ last.arg.at < last.arg.token.exp
  /\ last.err = "UnauthorizedException"

\* C28: the pair a successful refresh returns is built from the user stored
\* under the payload's subject id: both tokens carry that user's id, email
\* and role, whatever email and role the presented token carried.
C28_FreshUser ==
  ( last.op = "refreshToken" /\ last.err = "none" ) =>
    /\ Cardinality(last.ret) = 1
    /\ \A pair \in last.ret :
         \E u \in users :
           /\ u.id = last.arg.token.payload.sub
           /\ pair.access_token.payload = [sub |-> u.id, email |-> u.email, role |-> u.role]
           /\ pair.refresh_token.payload = [sub |-> u.id, email |-> u.email, role |-> u.role]

\* a refresh has succeeded with a token whose email and role both differ from
\* the stored user's
C28_Witness ==
  /\ last.op = "refreshToken"
  /\ last.err = "none"
  /\ \E u \in users :
       /\ u.id = last.arg.token.payload.sub
       /\ u.email # last.arg.token.payload.email
       /\ u.role # last.arg.token.payload.role

\* C29: a completed delete is not undone by an overlapping update: when the
\* task an update loaded has been removed before the update saves, the task
\* is still absent from the store after the save.
C29_DeleteNotUndone ==
  [][ \A c \in inflight :
        ( c \notin inflight' /\ FindTaskById(c.id) = {} )
          => \A t \in tasks' : t.id # c.id ]_vars

\* C30: no update is lost between overlapping updates: when an update saves,
\* every field of the stored task that its patch does not name keeps the value
\* stored by then, a value written by an overlapping update included.
C30_NoLostUpdate ==
  [][ \A c \in inflight :
        ( c \notin inflight' /\ last'.err = "none" ) =>
          \A t \in tasks : t.id = c.id =>
            \E t2 \in tasks' :
              /\ t2.id = c.id
              /\ \A f \in DOMAIN t \ DOMAIN c.dto : f \in DOMAIN t2 /\ t2[f] = t[f] ]_vars

====
